---- MODULE Spec2Model ----
(***************************************************************************)
(* The installer wizard of wyoming-satellite (script/_installer.py): the   *)
(* sequential command runner run_with_gauge, the microphone autodetect of  *)
(* configure_microphone, and the menu loops with their handlers.           *)
(***************************************************************************)
EXTENDS Integers, Sequences, FiniteSets, TLC

(* ------------------------------ bounds --------------------------------- *)
\* longest command list handed to run_with_gauge by the stand-alone caller
MaxCmds == 3
\* ticker iterations of one run_with_gauge call explored by the stand-alone caller
MaxTicks == 22
\* ticker iterations of one run_with_gauge call explored inside the wizard
WizardTicks == 1
\* most capture devices `arecord -L` lists when autodetect is run on its own
MaxDevices == 3
\* most capture devices of the machine the whole wizard is run on
WizardDevices == 2
\* menu selections (answers other than cancel) of one wizard session
MaxSelections == 4
\* the operator picks among the first MaxPick entries of a list prompt
MaxPick == 2
\* longest option list handed to menu, radiolist and checklist called on their own
MaxItems == 3

(* --------------------------- program constants ------------------------- *)
\* Python's None, for optional strings
None == "None"
\* the elevation token compared with command[0]
SUDO == "sudo"
\* parts = 20 and the step int(100 / parts) of run_with_gauge
parts == 20
Step == 100 \div parts
\* _RECORD_RMS_MIN
RECORD_RMS_MIN == 30
\* best_rms: Optional[float] = None (every score is >= 0)
NoRms == -1

VARIABLES
    pc,             \* position of the main thread
    \* ---- run_with_gauge: parameters, locals and what it has done
    site,           \* the call site run_with_gauge returns to
    commands,       \* parameter: the ordered command list
    sudo_password,  \* parameter: the secret, or None
    cmd_i,          \* number of commands submitted so far (loop index)
    futures,        \* one per submitted command: "running", "ok", "fail";
                    \* the local `future` is the last one
    percent,        \* the percentage counter
    gauge,          \* the gauge process: "none", "open", "closed"
    result,         \* the value returned: "none", "True", "False"
    budget,         \* ticker iterations the call may still be given
    started,        \* the commands submitted, in order (history)
    fed,            \* per spawned process: the command and what was written to it
    pushed,         \* the percentages written to the gauge, in order (history)
    \* ---- the world outside the process
    capture_hw,     \* the plughw: lines `arecord -L` prints
    playback_hw,    \* the plughw: lines `aplay -L` prints
    file,           \* local/settings.json
    venv,           \* .venv exists
    dirs,           \* the engines whose local/wyoming-<engine> directory exists
    descriptor,     \* local/services/wyoming-satellite.service exists
    \* ---- the wizard
    settings,       \* the Settings object
    msg,            \* the text of the message box on screen (pc = "msgbox")
    ret,            \* where the main thread continues once it is dismissed
    choice,         \* what the last menu() call returned
    last,           \* the last prompt the handler chosen at a menu showed,
                    \* and whether its result was absent (history)
    arg,            \* the handler's local: the engine or type chosen, the password
    nsel,           \* menu selections made so far
    dialog,         \* the list prompt the step just taken showed, if any: its
                    \* kind, option list, whiptail's answer, the value returned
    \* ---- autodetect (configure_microphone, choice == "detect")
    devices,        \* devices = get_microphone_devices()
    tasks,          \* per device the _record_proc future: done, and its value
    gauge_out,      \* the percentages gauge() wrote
    next_i,         \* position of `for device, future in futures.items()`
    best_device,
    best_rms

runVars == <<site, commands, sudo_password, cmd_i, futures, percent, gauge,
             result, budget, started, fed, pushed>>

worldVars == <<capture_hw, playback_hw, file, venv, dirs, descriptor>>
wizVars == <<settings, msg, ret, choice, last, arg, nsel>>
probeVars == <<devices, tasks, gauge_out, next_i, best_device, best_rms>>

vars == <<pc, runVars, worldVars, wizVars, probeVars, dialog>>

(* --------------------------- Settings ---------------------------------- *)

Engines == {"openWakeWord", "porcupine1", "snowboy"}
Fields == {"microphone_device", "sound_device", "feedback_sounds",
           "wake_word_system", "wake_word", "satellite_name", "satellite_type"}

\* the dataclass defaults
DefaultSettings ==
    [microphone_device |-> None,
     sound_device      |-> None,
     feedback_sounds   |-> <<>>,
     wake_word_system  |-> None,
     wake_word         |-> [e \in {} |-> ""],
     satellite_name    |-> "Wyoming Satellite",
     satellite_type    |-> "always"]

\* The settings file: whether it exists, the keys that hold a value other
\* than null, and the values.
NoFile == [exists |-> FALSE, present |-> {}, values |-> DefaultSettings]

\* Settings.load: a key that is missing or null takes the dataclass default
Load(f) ==
    IF ~f.exists THEN DefaultSettings
    ELSE [k \in Fields |-> IF k \in f.present THEN f.values[k] ELSE DefaultSettings[k]]

\* a save that leaves the microphone device out of the record
SaveWithoutMicrophone(s) ==
    [exists  |-> TRUE,
     present |-> {k \in Fields \ {"microphone_device"} :
                    IF k \in {"sound_device", "wake_word_system"}
                    THEN s[k] # None ELSE TRUE},
     values  |-> [s EXCEPT !.microphone_device = None]]

\* Settings.save: json.dump(asdict(self)); a None field is written as null
Save(s) ==
    [exists  |-> TRUE,
     present |-> {k \in Fields :
                    IF k \in {"microphone_device", "sound_device", "wake_word_system"}
                    THEN s[k] # None ELSE TRUE},
     values  |-> s]

(* --------------------------- list prompts ------------------------------ *)

\* no list prompt, and the call of one (radiolist, checklist or menu): the
\* option list, whiptail's exit code and stderr, and the value returned
NoDialog ==
    [kind |-> "none", items |-> <<>>, answer |-> [returncode |-> 1, stderr |-> ""],
     returned |-> None]
ListPrompt(kind, items, a, value) ==
    [kind |-> kind, items |-> items, answer |-> a, returned |-> value]

(* ------------------------ run_with_gauge ------------------------------- *)

\* a worker that hands the secret to whatever command it runs
ProcInputToEveryCommand(command, password) == password

\* proc_input of _run_command: the secret only for an elevated command and
\* only when a secret was supplied
ProcInput(command, password) ==
    IF command[1] = SUDO /\ password # None THEN password ELSE None

\* The outcomes of one _run_command call: the assertion on an empty command,
\* an exception from Popen, a non-zero exit code, exit code zero.
Outcomes(command) ==
    IF command = <<>> THEN {"assert"}
    ELSE {"spawn_error", "exit_nonzero", "exit_zero"}

\* the return value of _run_command
RunCommandResult(outcome) == IF outcome = "exit_zero" THEN "ok" ELSE "fail"

\* a counter that wraps on reaching 100 instead of on passing it
NextPercentWrapAt100(p) == IF p + Step >= 100 THEN 0 ELSE p + Step

\* percent += int(100 / parts); if percent > 100: percent = 0
NextPercent(p) == IF p + Step > 100 THEN 0 ELSE p + Step

\* The call itself: the gauge is opened and the locals are initialised.
\* The caller's action conjoins this with its own updates.
RunWithGauge(callsite, cmds, password, ticks) ==
    /\ pc' = "rwg_for"
    /\ site' = callsite
    /\ commands' = cmds
    /\ sudo_password' = password
    /\ cmd_i' = 0
    /\ futures' = <<>>
    /\ percent' = 0
    /\ gauge' = "open"
    /\ result' = "none"
    /\ budget' = ticks
    /\ started' = <<>>
    /\ fed' = <<>>
    /\ pushed' = <<>>

\* a runner that submits the next command without awaiting the current one
SubmitWithoutWaiting ==
    /\ pc = "rwg_for"
    /\ cmd_i < Len(commands)
    /\ cmd_i' = cmd_i + 1
    /\ futures' = Append(futures, "running")
    /\ started' = Append(started, commands[cmd_i + 1])
    /\ pc' = "rwg_for"
    /\ UNCHANGED <<site, commands, sudo_password, percent, gauge, result,
                   budget, fed, pushed>>
    /\ UNCHANGED <<worldVars, wizVars, probeVars>>
    /\ dialog' = NoDialog

\* `for command in commands: future = executor.submit(_run_command, ...)`
Submit ==
    /\ pc = "rwg_for"
    /\ cmd_i < Len(commands)
    /\ cmd_i' = cmd_i + 1
    /\ futures' = Append(futures, "running")
    /\ started' = Append(started, commands[cmd_i + 1])
    /\ pc' = "rwg_poll"
    /\ UNCHANGED <<site, commands, sudo_password, percent, gauge, result,
                   budget, fed, pushed>>
    /\ UNCHANGED <<worldVars, wizVars, probeVars>>
    /\ dialog' = NoDialog

\* What a command leaves on disk: `git clone <url> <dir>` creates the engine
\* directory when it succeeds and may leave a partial one when it fails.
DirsAfter(command, outcome) ==
    IF command # <<>> /\ command[1] = "git"
    THEN CASE outcome = "exit_zero"    -> {dirs \cup {command[3]}}
           [] outcome = "exit_nonzero" -> {dirs, dirs \cup {command[3]}}
           [] OTHER                    -> {dirs}
    ELSE {dirs}

\* The worker thread: one whole _run_command call.
WorkerFinish ==
    /\ \E k \in DOMAIN futures :
          /\ futures[k] = "running"
          /\ \E o \in Outcomes(commands[k]) :
                /\ futures' = [futures EXCEPT ![k] = RunCommandResult(o)]
                /\ fed' = IF o \in {"exit_nonzero", "exit_zero"}
                          THEN Append(fed, [command |-> commands[k],
                                            input |-> ProcInput(commands[k], sudo_password)])
                          ELSE fed
                /\ dirs' \in DirsAfter(commands[k], o)
    /\ UNCHANGED <<pc, site, commands, sudo_password, cmd_i, percent, gauge,
                   result, budget, started, pushed>>
    /\ UNCHANGED <<capture_hw, playback_hw, file, venv, descriptor, wizVars, probeVars>>
    /\ dialog' = NoDialog

\* `while not future.done():` found the worker still running: enter the body
PollRunning ==
    /\ pc = "rwg_poll"
    /\ futures[cmd_i] = "running"
    /\ budget > 0
    /\ pc' = "rwg_sleep"
    /\ budget' = budget - 1
    /\ UNCHANGED <<site, commands, sudo_password, cmd_i, futures, percent, gauge,
                   result, started, fed, pushed>>
    /\ UNCHANGED <<worldVars, wizVars, probeVars>>
    /\ dialog' = NoDialog

\* the loop body: sleep, step the counter, write it to the gauge
Tick ==
    /\ pc = "rwg_sleep"
    /\ percent' = NextPercent(percent)
    /\ pushed' = Append(pushed, NextPercent(percent))
    /\ pc' = "rwg_poll"
    /\ UNCHANGED <<site, commands, sudo_password, cmd_i, futures, gauge, result,
                   budget, started, fed>>
    /\ UNCHANGED <<worldVars, wizVars, probeVars>>
    /\ dialog' = NoDialog

\* a runner that ignores a failed command and carries on with the list
ObserveFailCarryOn ==
    /\ pc = "rwg_poll"
    /\ futures[cmd_i] = "fail"
    /\ pc' = "rwg_for"
    /\ UNCHANGED runVars
    /\ UNCHANGED <<worldVars, wizVars, probeVars>>
    /\ dialog' = NoDialog

\* `while not future.done()` found the worker done; `if not future.result():
\* return False` leaves the function with the gauge still open
ObserveFail ==
    /\ pc = "rwg_poll"
    /\ futures[cmd_i] = "fail"
    /\ result' = "False"
    /\ pc' = "rwg_return"
    /\ UNCHANGED <<site, commands, sudo_password, cmd_i, futures, percent, gauge,
                   budget, started, fed, pushed>>
    /\ UNCHANGED <<worldVars, wizVars, probeVars>>
    /\ dialog' = NoDialog

\* the worker succeeded: on to the next command of the list
ObserveOk ==
    /\ pc = "rwg_poll"
    /\ futures[cmd_i] = "ok"
    /\ pc' = "rwg_for"
    /\ UNCHANGED runVars
    /\ UNCHANGED <<worldVars, wizVars, probeVars>>
    /\ dialog' = NoDialog

\* the list is exhausted: proc.communicate() closes the gauge; return True
Finish ==
    /\ pc = "rwg_for"
    /\ cmd_i = Len(commands)
    /\ gauge' = "closed"
    /\ result' = "True"
    /\ pc' = "rwg_return"
    /\ UNCHANGED <<site, commands, sudo_password, cmd_i, futures, percent,
                   budget, started, fed, pushed>>
    /\ UNCHANGED <<worldVars, wizVars, probeVars>>
    /\ dialog' = NoDialog

NextRun == Submit \/ WorkerFinish \/ PollRunning \/ Tick \/ ObserveFail
              \/ ObserveOk \/ Finish


(* ------------------- whiptail and the list prompts --------------------- *)

\* what one whiptail process may answer: its exit code and what it wrote to
\* stderr
Cancel == [returncode |-> 1, stderr |-> ""]
Ok(text) == [returncode |-> 0, stderr |-> text]

\* whiptail(*args): None on a non-zero exit code, else the text of stderr
Whiptail(a) == IF a.returncode # 0 THEN None ELSE a.stderr

\* str(i) for the positions that occur
Str(i) == <<"0", "1", "2", "3", "4", "5", "6", "7", "8", "9">>[i + 1]

\* option lists: a bare label, or a (value, label) pair
Bare(label) == [bare |-> TRUE, label |-> label]
Pair(value, label) == [bare |-> FALSE, value |-> value, label |-> label]
ItemValue(item) == IF item.bare THEN item.label ELSE item.value

\* an item_map whose keys are the labels instead of the positions
ItemMapByLabel(items) ==
    [t \in {items[i].label : i \in DOMAIN items} |->
        ItemValue(items[CHOOSE i \in DOMAIN items : items[i].label = t])]

\* item_map of menu, radiolist and checklist: item_id = str(i) -> item or item[0]
ItemMap(items) ==
    [t \in {Str(i - 1) : i \in DOMAIN items} |->
        ItemValue(items[CHOOSE i \in DOMAIN items : Str(i - 1) = t])]

\* menu(text, items): item_map.get(result)
Menu(items, a) ==
    IF Whiptail(a) \in DOMAIN ItemMap(items) THEN ItemMap(items)[Whiptail(a)] ELSE None

\* radiolist(text, items, selected_item): None when cancelled, else
\* item_map.get(result, result)
Radiolist(items, a) ==
    IF Whiptail(a) = None THEN None
    ELSE IF Whiptail(a) \in DOMAIN ItemMap(items) THEN ItemMap(items)[Whiptail(a)]
    ELSE Whiptail(a)

\* a checklist that takes an empty result for a cancelled prompt
ChecklistEmptyIsAbsent(items, a) ==
    IF a.returncode # 0 \/ a.stderr = <<>> THEN [absent |-> TRUE, values |-> <<>>]
    ELSE [absent |-> FALSE,
          values |-> [k \in DOMAIN a.stderr |->
                        IF a.stderr[k] \in DOMAIN ItemMap(items)
                        THEN ItemMap(items)[a.stderr[k]] ELSE a.stderr[k]]]

\* checklist(text, items, selected_items): None when cancelled, else the
\* tokens of the result mapped through item_map; here `a.stderr` is the
\* token list shlex.split yields
Checklist(items, a) ==
    IF a.returncode # 0 THEN [absent |-> TRUE, values |-> <<>>]
    ELSE [absent |-> FALSE,
          values |-> [k \in DOMAIN a.stderr |->
                        IF a.stderr[k] \in DOMAIN ItemMap(items)
                        THEN ItemMap(items)[a.stderr[k]] ELSE a.stderr[k]]]

\* the answers an operator can give to a menu: cancel, or one of the entries
MenuAnswers(items) == {Cancel} \cup {Ok(Str(i - 1)) : i \in DOMAIN items}

\* the answers to a single-select list: cancel, one of the (first) entries, or
\* OK with nothing checked when no entry was preselected
RadiolistAnswers(items, selected_item, limit) ==
    {Cancel}
      \cup {Ok(Str(i - 1)) : i \in {j \in DOMAIN items : j <= limit}}
      \cup (IF \E i \in DOMAIN items : ItemValue(items[i]) = selected_item
            THEN {} ELSE {Ok("")})

\* the answers to a multi-select list of two entries
ChecklistAnswers ==
    {[returncode |-> 1, stderr |-> <<>>]}
      \cup {[returncode |-> 0, stderr |-> t] : t \in {<<>>, <<"0">>, <<"1">>, <<"0", "1">>}}

\* what the password box and the yes/no box may answer
PasswordAnswers == {Cancel, Ok("hunter2")}
YesnoAnswers == {Cancel, Ok("")}

\* the prompts a handler showed: none, or the kind of the last one and
\* whether its result was absent
NoPrompt == [prompt |-> "none", absent |-> FALSE]
Prompted(kind, value) == [prompt |-> kind, absent |-> value = None]

(* ----------------------------- the menus ------------------------------- *)

Menus == {"main_menu", "mic_menu", "snd_menu", "wake_menu"}
SubMenus == Menus \ {"main_menu"}

\* main_menu(settings): "Configure Wake Word" is offered in wake mode only
MainItems(s) ==
    <<Pair("mic", "Configure Microphone"), Pair("snd", "Configure Sound")>>
      \o (IF s.satellite_type = "wake"
          THEN <<Pair("wake", "Configure Wake Word")>> ELSE <<>>)
      \o <<Pair("name", "Set Satellite Name"), Pair("type", "Set Satellite Type"),
           Pair("generate", "Generate Services"), Pair("install", "Install Services")>>

\* microphone_menu()
MicItems ==
    <<Pair("detect", "Autodetect"), Pair("list", "Select From List"),
      Pair("manual", "Enter Manually"), Pair("respeaker", "Install ReSpeaker Drivers")>>

\* sound_menu()
SndItems ==
    <<Pair("detect", "Autodetect"), Pair("list", "Select From List"),
      Pair("manual", "Enter Manually"), Pair("disable", "Disable Sound"),
      Pair("feedback", "Toggle Feedback Sounds")>>

\* wake_word_menu(settings)
WakeItems(s) ==
    <<Pair("system", "Select System")>>
      \o (IF s.wake_word_system # None
          THEN <<Pair("wake_word", "Select Wake Word")>> ELSE <<>>)

ItemsOf(menu_pc) ==
    CASE menu_pc = "main_menu" -> MainItems(settings)
      [] menu_pc = "mic_menu"  -> MicItems
      [] menu_pc = "snd_menu"  -> SndItems
      [] menu_pc = "wake_menu" -> WakeItems(settings)

\* `choice = <menu>()` returned `key`: the branch of that key is taken
Select(menu_pc, key) ==
    /\ pc = menu_pc
    /\ nsel < MaxSelections
    /\ \E a \in MenuAnswers(ItemsOf(menu_pc)) : Menu(ItemsOf(menu_pc), a) = key
    /\ choice' = key
    /\ nsel' = nsel + 1

(* ------------------------- message boxes ------------------------------- *)

\* msgbox(text): the box is put on screen; the caller continues at `after`
\* once it is dismissed
Msgbox(text, after) ==
    /\ pc' = "msgbox"
    /\ msg' = text
    /\ ret' = after

\* whiptail --msgbox returns (its result is ignored)
MsgboxClose ==
    /\ pc = "msgbox"
    /\ pc' = ret
    /\ msg' = ""
    /\ ret' = ""
    /\ UNCHANGED <<settings, choice, last, arg, nsel, runVars, worldVars, probeVars>>
    /\ dialog' = NoDialog

(* ---------------- autodetect: configure_microphone "detect" ------------ *)

\* what `arecord -L` may do: fail, or print the machine's plughw: lines
ListingOutcomes(hw) == {"error", "listed"}

RECURSIVE SumSq(_)
SumSq(a) == IF a = <<>> THEN 0 ELSE Head(a) * Head(a) + SumSq(Tail(a))

\* math.sqrt on the mean squares that occur (all of them perfect squares)
Sqrt(n) == CHOOSE r \in 0..n : r * r <= n /\ n < (r + 1) * (r + 1)

\* the captures a device may deliver: no samples, silence, and tones just
\* below, at and above the threshold
Captures == {<<>>, <<29, -29>>, <<30, -30>>, <<31, -31>>}

\* what one `arecord -D device` may do
CaptureOutcomes == {[error |-> TRUE, audio |-> <<>>]}
                      \cup {[error |-> FALSE, audio |-> a] : a \in Captures}

\* a probe task that lets the division by zero of an empty capture escape
RecordProcRaisesOnEmpty(o) ==
    IF o.error THEN [raised |-> FALSE, rms |-> 0]
    ELSE IF Len(o.audio) = 0 THEN [raised |-> TRUE, rms |-> 0]
    ELSE [raised |-> FALSE, rms |-> Sqrt(SumSq(o.audio) \div Len(o.audio))]

\* _record_proc: the root mean square of the samples; check_output raising and
\* the division by len(audio_array) = 0 both end in `except Exception` and
\* `return 0`
RecordProc(o) ==
    IF o.error THEN [raised |-> FALSE, rms |-> 0]
    ELSE IF Len(o.audio) = 0 THEN [raised |-> FALSE, rms |-> 0]
    ELSE [raised |-> FALSE, rms |-> Sqrt(SumSq(o.audio) \div Len(o.audio))]

\* gauge(text, seconds, parts): `while percent <= 100: percent += int(100 /
\* parts); print(percent)`, as the sequence of values written
RECURSIVE GaugeLoop(_, _)
GaugeLoop(p, out) ==
    IF p <= 100 THEN GaugeLoop(p + Step, Append(out, p + Step)) ELSE out

Gauge == GaugeLoop(0, <<>>)

NewTask == [done |-> FALSE, failed |-> FALSE, raised |-> FALSE, rms |-> 0]
NoTasks == [k \in {} |-> NewTask]

\* the locals of the "detect" branch once it is left
ProbeIdle ==
    /\ devices' = <<>>
    /\ tasks' = NoTasks
    /\ gauge_out' = <<>>
    /\ next_i' = 0
    /\ best_device' = None
    /\ best_rms' = NoRms

\* choice == "detect": the devices are listed and one _record_proc is
\* submitted per device; a failing listing raises out of main()
MicDetect ==
    /\ Select("mic_menu", "detect")
    /\ last' = NoPrompt
    /\ \E o \in ListingOutcomes(capture_hw) :
          IF o = "error"
          THEN /\ pc' = "crashed"
               /\ UNCHANGED probeVars
          ELSE /\ pc' = "detect_gauge"
               /\ devices' = capture_hw
               /\ tasks' = [k \in DOMAIN capture_hw |-> NewTask]
               /\ best_device' = None
               /\ best_rms' = NoRms
               /\ UNCHANGED <<gauge_out, next_i>>
    /\ UNCHANGED <<runVars, worldVars, settings, msg, ret, arg>>
    /\ dialog' = NoDialog

\* a pool thread: one whole _record_proc call
ProbeFinish ==
    /\ \E k \in DOMAIN tasks :
          /\ ~tasks[k].done
          /\ \E o \in CaptureOutcomes :
                tasks' = [tasks EXCEPT ![k] =
                            [done   |-> TRUE,
                             failed |-> o.error \/ o.audio = <<>>,
                             raised |-> RecordProc(o).raised,
                             rms    |-> RecordProc(o).rms]]
    /\ UNCHANGED <<pc, runVars, worldVars, wizVars, devices, gauge_out, next_i,
                   best_device, best_rms>>
    /\ dialog' = NoDialog

\* a gauge the operator can cancel, which abandons the batch
DetectGaugeCancellable ==
    /\ pc = "detect_gauge"
    /\ \/ /\ gauge_out' = Gauge
          /\ next_i' = 1
          /\ pc' = "detect_results"
          /\ UNCHANGED <<devices, tasks, best_device, best_rms>>
       \/ /\ pc' = "mic_menu"
          /\ ProbeIdle
    /\ UNCHANGED <<runVars, worldVars, wizVars>>
    /\ dialog' = NoDialog

\* gauge("Speak loudly into the microphone.", _RECORD_SECONDS) runs to its end
DetectGauge ==
    /\ pc = "detect_gauge"
    /\ gauge_out' = Gauge
    /\ next_i' = 1
    /\ pc' = "detect_results"
    /\ UNCHANGED <<runVars, worldVars, wizVars, devices, tasks, best_device, best_rms>>
    /\ dialog' = NoDialog

\* a loop that takes the later of two equal scores
ConsultLastWins ==
    /\ pc = "detect_results"
    /\ next_i <= Len(devices)
    /\ tasks[next_i].done
    /\ IF tasks[next_i].raised
       THEN /\ pc' = "crashed"
            /\ UNCHANGED <<best_device, best_rms, next_i>>
       ELSE /\ LET device_rms == tasks[next_i].rms
               IN  IF device_rms < RECORD_RMS_MIN
                   THEN UNCHANGED <<best_device, best_rms>>
                   ELSE IF best_rms = NoRms \/ device_rms >= best_rms
                   THEN /\ best_device' = devices[next_i]
                        /\ best_rms' = device_rms
                   ELSE UNCHANGED <<best_device, best_rms>>
            /\ next_i' = next_i + 1
            /\ pc' = pc
    /\ UNCHANGED <<runVars, worldVars, wizVars, devices, tasks, gauge_out>>
    /\ dialog' = NoDialog

\* a loop that does not wait for the result it reads
ConsultWithoutWaiting ==
    /\ pc = "detect_results"
    /\ next_i <= Len(devices)
    /\ IF tasks[next_i].raised
       THEN /\ pc' = "crashed"
            /\ UNCHANGED <<best_device, best_rms, next_i>>
       ELSE /\ LET device_rms == tasks[next_i].rms
               IN  IF device_rms < RECORD_RMS_MIN
                   THEN UNCHANGED <<best_device, best_rms>>
                   ELSE IF best_rms = NoRms \/ device_rms > best_rms
                   THEN /\ best_device' = devices[next_i]
                        /\ best_rms' = device_rms
                   ELSE UNCHANGED <<best_device, best_rms>>
            /\ next_i' = next_i + 1
            /\ pc' = pc
    /\ UNCHANGED <<runVars, worldVars, wizVars, devices, tasks, gauge_out>>
    /\ dialog' = NoDialog

\* one iteration of `for device, future in futures.items()`: future.result()
\* blocks until that device's task is done (and re-raises what the task raised),
\* then the score is compared
Consult ==
    /\ pc = "detect_results"
    /\ next_i <= Len(devices)
    /\ tasks[next_i].done
    /\ IF tasks[next_i].raised
       THEN /\ pc' = "crashed"
            /\ UNCHANGED <<best_device, best_rms, next_i>>
       ELSE /\ LET device_rms == tasks[next_i].rms
               IN  IF device_rms < RECORD_RMS_MIN
                   THEN UNCHANGED <<best_device, best_rms>>
                   ELSE IF best_rms = NoRms \/ device_rms > best_rms
                   THEN /\ best_device' = devices[next_i]
                        /\ best_rms' = device_rms
                   ELSE UNCHANGED <<best_device, best_rms>>
            /\ next_i' = next_i + 1
            /\ pc' = pc
    /\ UNCHANGED <<runVars, worldVars, wizVars, devices, tasks, gauge_out>>
    /\ dialog' = NoDialog

\* the loop is over: the outcome is put on screen
DetectReport ==
    /\ pc = "detect_results"
    /\ next_i = Len(devices) + 1
    /\ IF best_device # None
       THEN Msgbox("Successfully detected microphone", "detect_found")
       ELSE Msgbox("Audio was not detected from any microphone", "detect_none")
    /\ UNCHANGED <<settings, choice, last, arg, nsel, runVars, worldVars, probeVars>>
    /\ dialog' = NoDialog

\* settings.microphone_device = best_device; settings.save()
DetectFound ==
    /\ pc = "detect_found"
    /\ settings' = [settings EXCEPT !.microphone_device = best_device]
    /\ file' = Save(settings')
    /\ pc' = "mic_menu"
    /\ ProbeIdle
    /\ UNCHANGED <<runVars, capture_hw, playback_hw, venv, dirs, descriptor,
                   msg, ret, choice, last, arg, nsel>>
    /\ dialog' = NoDialog

\* nothing was detected: back to the microphone menu
DetectNone ==
    /\ pc = "detect_none"
    /\ pc' = "mic_menu"
    /\ ProbeIdle
    /\ UNCHANGED <<runVars, worldVars, wizVars>>
    /\ dialog' = NoDialog

NextProbe == MicDetect \/ ProbeFinish \/ DetectGauge \/ Consult \/ DetectReport
                \/ MsgboxClose \/ DetectFound \/ DetectNone

(* ------------------------ the wizard: main() --------------------------- *)

\* dict.get, dict.setdefault and item assignment on settings.wake_word
Get(d, k) == IF k \in DOMAIN d THEN d[k] ELSE None
Put(d, k, v) == [x \in DOMAIN d \cup {k} |-> IF x = k THEN v ELSE d[x]]
SetDefault(d, k, v) == IF k \in DOMAIN d THEN d ELSE Put(d, k, v)

\* run_with_gauge has returned and its frame is gone; the gauge process is
\* whatever the call left behind
RunnerPop ==
    /\ site' = "none"
    /\ commands' = <<>>
    /\ sudo_password' = None
    /\ cmd_i' = 0
    /\ futures' = <<>>
    /\ percent' = 0
    /\ result' = "none"
    /\ budget' = 0
    /\ started' = <<>>
    /\ fed' = <<>>
    /\ pushed' = <<>>
    /\ UNCHANGED gauge

\* main(): the base install runs first when .venv is missing; its result is
\* not looked at
Start ==
    /\ pc = "start"
    /\ IF ~venv
       THEN RunWithGauge("main", << <<"script/setup">> >>, None, WizardTicks)
       ELSE pc' = "main_menu" /\ UNCHANGED runVars
    /\ UNCHANGED <<worldVars, wizVars, probeVars>>
    /\ dialog' = NoDialog

AfterBase ==
    /\ pc = "rwg_return"
    /\ site = "main"
    /\ pc' = "main_menu"
    /\ RunnerPop
    /\ UNCHANGED <<worldVars, wizVars, probeVars>>
    /\ dialog' = NoDialog

\* choice == "mic" / "snd" / "wake": the submenu loop is entered
OpenSubmenu ==
    /\ \E key \in {"mic", "snd", "wake"} :
          /\ Select("main_menu", key)
          /\ pc' = CASE key = "mic" -> "mic_menu"
                     [] key = "snd" -> "snd_menu"
                     [] key = "wake" -> "wake_menu"
    /\ last' = NoPrompt
    /\ UNCHANGED <<settings, msg, ret, arg, runVars, worldVars, probeVars>>
    /\ dialog' = NoDialog

\* a root menu whose cancel is ignored
MainExitIgnored ==
    /\ pc = "main_menu"
    /\ \E a \in MenuAnswers(MainItems(settings)) : Menu(MainItems(settings), a) = None
    /\ choice' = None
    /\ last' = NoPrompt
    /\ pc' = "main_menu"
    /\ UNCHANGED <<settings, msg, ret, arg, nsel, runVars, worldVars, probeVars>>
    /\ dialog' = NoDialog

\* main(): `else: break` ends the wizard
MainExit ==
    /\ pc = "main_menu"
    /\ \E a \in MenuAnswers(MainItems(settings)) : Menu(MainItems(settings), a) = None
    /\ choice' = None
    /\ last' = NoPrompt
    /\ pc' = "exited"
    /\ UNCHANGED <<settings, msg, ret, arg, nsel, runVars, worldVars, probeVars>>
    /\ dialog' = NoDialog

\* configure_microphone / configure_sound / configure_wake_word: `else: break`
Back ==
    /\ pc \in SubMenus
    /\ \E a \in MenuAnswers(ItemsOf(pc)) : Menu(ItemsOf(pc), a) = None
    /\ choice' = None
    /\ last' = NoPrompt
    /\ pc' = "main_menu"
    /\ UNCHANGED <<settings, msg, ret, arg, nsel, runVars, worldVars, probeVars>>
    /\ dialog' = NoDialog

TypedNames == {"", "Kitchen"}
TypedDevices == {"", "plughw:9"}

\* set_satellite_name
SetSatelliteName ==
    /\ Select("main_menu", "name")
    /\ \E a \in {Cancel} \cup {Ok(t) : t \in TypedNames} :
          LET name == Whiptail(a)
          IN  /\ last' = Prompted("inputbox", name)
              /\ IF name \notin {None, ""}
                 THEN /\ settings' = [settings EXCEPT !.satellite_name = name]
                      /\ file' = Save(settings')
                 ELSE UNCHANGED <<settings, file>>
    /\ pc' = "main_menu"
    /\ UNCHANGED <<msg, ret, arg, runVars, capture_hw, playback_hw, venv, dirs,
                   descriptor, probeVars>>
    /\ dialog' = NoDialog

TypeItems ==
    <<Pair("always", "Always streaming"), Pair("vad", "Voice activity detection"),
      Pair("wake", "Local wake word detection")>>

\* pip_install("-r", requirements_vad.txt)
PipInstallVad == <<".venv/bin/pip3", "install", "-r", "requirements_vad.txt">>

\* set_satellite_type: the radiolist, then the vad install when vad was chosen
SetSatelliteType ==
    /\ Select("main_menu", "type")
    /\ \E a \in RadiolistAnswers(TypeItems, settings.satellite_type, Len(TypeItems)) :
          LET satellite_type == Radiolist(TypeItems, a)
          IN  /\ last' = Prompted("radiolist", satellite_type)
              /\ dialog' = ListPrompt("radiolist", TypeItems, a, satellite_type)
              /\ IF satellite_type = "vad"
                 THEN /\ RunWithGauge("vad", <<PipInstallVad>>, None, WizardTicks)
                      /\ arg' = satellite_type
                      /\ UNCHANGED <<settings, file>>
                 ELSE /\ IF satellite_type # None
                         THEN /\ settings' = [settings EXCEPT !.satellite_type = satellite_type]
                              /\ file' = Save(settings')
                         ELSE UNCHANGED <<settings, file>>
                      /\ pc' = "main_menu"
                      /\ UNCHANGED <<arg, runVars>>
    /\ UNCHANGED <<msg, ret, capture_hw, playback_hw, venv, dirs, descriptor, probeVars>>

\* set_satellite_type after the vad install: an error box and nothing else, or
\* the type is stored and saved
AfterVad ==
    /\ pc = "rwg_return"
    /\ site = "vad"
    /\ IF result = "False"
       THEN /\ Msgbox("An error occurred while installed vad", "main_menu")
            /\ UNCHANGED <<settings, file>>
       ELSE /\ settings' = [settings EXCEPT !.satellite_type = arg]
            /\ file' = Save(settings')
            /\ pc' = "main_menu"
            /\ UNCHANGED <<msg, ret>>
    /\ arg' = None
    /\ RunnerPop
    /\ UNCHANGED <<choice, last, nsel, capture_hw, playback_hw, venv, dirs,
                   descriptor, probeVars>>
    /\ dialog' = NoDialog

\* generate_services without the check of the microphone
GenerateServicesUnchecked ==
    /\ Select("main_menu", "generate")
    /\ last' = NoPrompt
    /\ \E o \in {"error", "ok"} :
          IF o = "error"
          THEN pc' = "crashed" /\ UNCHANGED <<descriptor, msg, ret>>
          ELSE descriptor' = TRUE /\ Msgbox("Services generated", "main_menu")
    /\ UNCHANGED <<settings, arg, runVars, capture_hw, playback_hw, file, venv, dirs,
                   probeVars>>
    /\ dialog' = NoDialog

\* generate_services: without a microphone a message and nothing else; else
\* `id` is run twice (a failure raises out of main) and the descriptor written
GenerateServices ==
    /\ Select("main_menu", "generate")
    /\ last' = NoPrompt
    /\ IF settings.microphone_device = None
       THEN /\ Msgbox("Please configure microphone", "main_menu")
            /\ UNCHANGED descriptor
       ELSE \E o \in {"error", "ok"} :
               IF o = "error"
               THEN pc' = "crashed" /\ UNCHANGED <<descriptor, msg, ret>>
               ELSE descriptor' = TRUE /\ Msgbox("Services generated", "main_menu")
    /\ UNCHANGED <<settings, arg, runVars, capture_hw, playback_hw, file, venv, dirs,
                   probeVars>>
    /\ dialog' = NoDialog

\* the command lists of install_services
StopCommands ==
    [k \in 1..4 |-> <<SUDO, "-S", "systemctl", "disable", "--now",
                      <<"wyoming-satellite.service", "wyoming-openwakeword.service",
                        "wyoming-porcupine1.service", "wyoming-snowboy.service">>[k]>>]

InstallCommands ==
    << <<SUDO, "-S", "systemctl", "daemon-reload">>,
       <<SUDO, "-S", "cp", "wyoming-satellite.service", "/etc/systemd/system/">>,
       <<SUDO, "-S", "systemctl", "enable", "--now", "wyoming-satellite.service">> >>

\* install_services up to the first command sequence: without a descriptor a
\* message and nothing else; else the password box, whose result goes to
\* run_with_gauge as it is
InstallServices ==
    /\ Select("main_menu", "install")
    /\ IF ~descriptor
       THEN /\ Msgbox("Please generate services", "main_menu")
            /\ last' = NoPrompt
            /\ UNCHANGED <<arg, runVars>>
       ELSE \E a \in PasswordAnswers :
               /\ last' = Prompted("passwordbox", Whiptail(a))
               /\ arg' = Whiptail(a)
               /\ RunWithGauge("stop", StopCommands, Whiptail(a), WizardTicks)
               /\ UNCHANGED <<msg, ret>>
    /\ UNCHANGED <<settings, worldVars, probeVars>>
    /\ dialog' = NoDialog

\* install_services: the result of "Stopping Services..." is not looked at;
\* "Installing Services..." is run next
AfterStop ==
    /\ pc = "rwg_return"
    /\ site = "stop"
    /\ RunWithGauge("install", InstallCommands, arg, WizardTicks)
    /\ UNCHANGED <<worldVars, wizVars, probeVars>>
    /\ dialog' = NoDialog

\* install_services: the outcome of "Installing Services..." is put on screen
AfterInstall ==
    /\ pc = "rwg_return"
    /\ site = "install"
    /\ IF result = "True"
       THEN Msgbox("Successfully installed services", "main_menu")
       ELSE Msgbox("An error occurred while installing services", "main_menu")
    /\ arg' = None
    /\ RunnerPop
    /\ UNCHANGED <<settings, choice, last, nsel, worldVars, probeVars>>
    /\ dialog' = NoDialog

(* ------------------------ configure_microphone ------------------------- *)

BareItems(names) == [k \in DOMAIN names |-> Bare(names[k])]

\* choice == "list": the devices are listed (a failure raises out of main),
\* radiolist asserts that there are items, and a choice is stored and saved
MicList ==
    /\ Select("mic_menu", "list")
    /\ \E o \in ListingOutcomes(capture_hw) :
          IF o = "error" \/ capture_hw = <<>>
          THEN /\ pc' = "crashed"
               /\ last' = NoPrompt
               /\ dialog' = NoDialog
               /\ UNCHANGED <<settings, file>>
          ELSE \E a \in RadiolistAnswers(BareItems(capture_hw),
                                         settings.microphone_device, Len(capture_hw)) :
                  LET microphone_device == Radiolist(BareItems(capture_hw), a)
                  IN  /\ last' = Prompted("radiolist", microphone_device)
                      /\ dialog' = ListPrompt("radiolist", BareItems(capture_hw), a,
                                               microphone_device)
                      /\ IF microphone_device \notin {None, ""}
                         THEN /\ settings' = [settings EXCEPT
                                                !.microphone_device = microphone_device]
                              /\ file' = Save(settings')
                         ELSE UNCHANGED <<settings, file>>
                      /\ pc' = "mic_menu"
    /\ UNCHANGED <<msg, ret, arg, runVars, capture_hw, playback_hw, venv, dirs,
                   descriptor, probeVars>>

\* choice == "manual"
MicManual ==
    /\ Select("mic_menu", "manual")
    /\ \E a \in {Cancel} \cup {Ok(t) : t \in TypedDevices} :
          LET microphone_device == Whiptail(a)
          IN  /\ last' = Prompted("inputbox", microphone_device)
              /\ IF microphone_device \notin {None, ""}
                 THEN /\ settings' = [settings EXCEPT
                                        !.microphone_device = microphone_device]
                      /\ file' = Save(settings')
                 ELSE UNCHANGED <<settings, file>>
    /\ pc' = "mic_menu"
    /\ UNCHANGED <<msg, ret, arg, runVars, capture_hw, playback_hw, venv, dirs,
                   descriptor, probeVars>>
    /\ dialog' = NoDialog

RespeakerCommands == << <<SUDO, "-S", "etc/install-respeaker-drivers.sh">> >>

\* choice == "respeaker": yes/no, then the password box, whose result goes to
\* run_with_gauge as it is
MicRespeaker ==
    /\ Select("mic_menu", "respeaker")
    /\ \E y \in YesnoAnswers :
          IF Whiptail(y) = None
          THEN /\ last' = Prompted("yesno", None)
               /\ pc' = "mic_menu"
               /\ UNCHANGED <<arg, runVars>>
          ELSE \E a \in PasswordAnswers :
                  /\ last' = Prompted("passwordbox", Whiptail(a))
                  /\ arg' = Whiptail(a)
                  /\ RunWithGauge("respeaker", RespeakerCommands, Whiptail(a), WizardTicks)
    /\ UNCHANGED <<settings, msg, ret, worldVars, probeVars>>
    /\ dialog' = NoDialog

\* after the driver installation, whatever its result: the message
AfterRespeaker ==
    /\ pc = "rwg_return"
    /\ site = "respeaker"
    /\ Msgbox("Driver installation complete", "sys_exit")
    /\ UNCHANGED <<settings, choice, last, arg, nsel, runVars, worldVars, probeVars>>
    /\ dialog' = NoDialog

\* sys.exit(0)
SysExit ==
    /\ pc = "sys_exit"
    /\ pc' = "exit0"
    /\ UNCHANGED <<runVars, worldVars, wizVars, probeVars>>
    /\ dialog' = NoDialog

(* -------------------------- configure_sound ---------------------------- *)

\* choice == "detect": pass
SndDetect ==
    /\ Select("snd_menu", "detect")
    /\ last' = NoPrompt
    /\ pc' = "snd_menu"
    /\ UNCHANGED <<settings, msg, ret, arg, runVars, worldVars, probeVars>>
    /\ dialog' = NoDialog

\* choice == "list"
SndList ==
    /\ Select("snd_menu", "list")
    /\ \E o \in ListingOutcomes(playback_hw) :
          IF o = "error" \/ playback_hw = <<>>
          THEN /\ pc' = "crashed"
               /\ last' = NoPrompt
               /\ dialog' = NoDialog
               /\ UNCHANGED <<settings, file>>
          ELSE \E a \in RadiolistAnswers(BareItems(playback_hw),
                                         settings.sound_device, Len(playback_hw)) :
                  LET sound_device == Radiolist(BareItems(playback_hw), a)
                  IN  /\ last' = Prompted("radiolist", sound_device)
                      /\ dialog' = ListPrompt("radiolist", BareItems(playback_hw), a,
                                               sound_device)
                      /\ IF sound_device \notin {None, ""}
                         THEN /\ settings' = [settings EXCEPT !.sound_device = sound_device]
                              /\ file' = Save(settings')
                         ELSE UNCHANGED <<settings, file>>
                      /\ pc' = "snd_menu"
    /\ UNCHANGED <<msg, ret, arg, runVars, capture_hw, playback_hw, venv, dirs,
                   descriptor, probeVars>>

\* choice == "manual"
SndManual ==
    /\ Select("snd_menu", "manual")
    /\ \E a \in {Cancel} \cup {Ok(t) : t \in TypedDevices} :
          LET sound_device == Whiptail(a)
          IN  /\ last' = Prompted("inputbox", sound_device)
              /\ IF sound_device \notin {None, ""}
                 THEN /\ settings' = [settings EXCEPT !.sound_device = sound_device]
                      /\ file' = Save(settings')
                 ELSE UNCHANGED <<settings, file>>
    /\ pc' = "snd_menu"
    /\ UNCHANGED <<msg, ret, arg, runVars, capture_hw, playback_hw, venv, dirs,
                   descriptor, probeVars>>
    /\ dialog' = NoDialog

\* choice == "disable": stored and saved, then the message
SndDisable ==
    /\ Select("snd_menu", "disable")
    /\ last' = NoPrompt
    /\ settings' = [settings EXCEPT !.sound_device = None]
    /\ file' = Save(settings')
    /\ Msgbox("Sound disabled", "snd_menu")
    /\ UNCHANGED <<arg, runVars, capture_hw, playback_hw, venv, dirs, descriptor,
                   probeVars>>
    /\ dialog' = NoDialog

FeedbackItems == <<Pair("awake", "On wake-up"), Pair("done", "After voice command")>>

\* choice == "feedback"
SndFeedback ==
    /\ Select("snd_menu", "feedback")
    /\ \E a \in ChecklistAnswers :
          LET feedback_sounds == Checklist(FeedbackItems, a)
          IN  /\ last' = [prompt |-> "checklist", absent |-> feedback_sounds.absent]
              /\ dialog' = ListPrompt("checklist", FeedbackItems, a, feedback_sounds)
              /\ IF ~feedback_sounds.absent
                 THEN /\ settings' = [settings EXCEPT
                                        !.feedback_sounds = feedback_sounds.values]
                      /\ file' = Save(settings')
                 ELSE UNCHANGED <<settings, file>>
    /\ pc' = "snd_menu"
    /\ UNCHANGED <<msg, ret, arg, runVars, capture_hw, playback_hw, venv, dirs,
                   descriptor, probeVars>>

(* ------------------------ configure_wake_word -------------------------- *)

EngineItems == BareItems(<<"openWakeWord", "porcupine1", "snowboy">>)

\* the wake word install_wake_word gives an engine that has none
DefaultWakeWord(e) ==
    CASE e = "openWakeWord" -> "ok_nabu"
      [] e = "porcupine1"   -> "porcupine"
      [] e = "snowboy"      -> "snowboy"

\* git clone <url> local/wyoming-<engine>, then its script/setup
EngineCommands(e) == << <<"git", "clone", e>>, <<"script/setup", e>> >>

\* the branch of install_wake_word that is taken: the first two compare the
\* argument, the third compares settings.wake_word_system
InstallBranch(wake_word_system) ==
    IF wake_word_system = "openWakeWord" THEN "openWakeWord"
    ELSE IF wake_word_system = "porcupine1" THEN "porcupine1"
    ELSE IF settings.wake_word_system = "snowboy" THEN "snowboy"
    ELSE "none"

\* an end of branch that writes the default wake word whether or not the
\* engine has one
StoreEngineResetsWord(branch, wake_word_system) ==
    /\ settings' = [settings EXCEPT
                      !.wake_word_system = wake_word_system,
                      !.wake_word = Put(settings.wake_word, branch,
                                        DefaultWakeWord(branch))]
    /\ file' = Save(settings')

\* the end of a branch: the engine is stored, it gets its default wake word if
\* it has none, and the settings are saved
StoreEngine(branch, wake_word_system) ==
    /\ settings' = [settings EXCEPT
                      !.wake_word_system = wake_word_system,
                      !.wake_word = SetDefault(settings.wake_word, branch,
                                               DefaultWakeWord(branch))]
    /\ file' = Save(settings')

\* choice == "system": the radiolist of engines, then install_wake_word up to
\* its command sequence (or to its end when the directory exists)
WakeSystem ==
    /\ Select("wake_menu", "system")
    /\ \E a \in RadiolistAnswers(EngineItems, settings.wake_word_system, Len(EngineItems)) :
          LET wake_word_system == Radiolist(EngineItems, a)
              branch == InstallBranch(wake_word_system)
          IN  /\ last' = Prompted("radiolist", wake_word_system)
              /\ dialog' = ListPrompt("radiolist", EngineItems, a, wake_word_system)
              /\ IF wake_word_system = None \/ branch = "none"
                 THEN /\ pc' = "wake_menu"
                      /\ UNCHANGED <<settings, file, arg, runVars>>
                 ELSE IF branch \notin dirs
                 THEN /\ RunWithGauge(branch, EngineCommands(branch), None, WizardTicks)
                      /\ arg' = wake_word_system
                      /\ UNCHANGED <<settings, file>>
                 ELSE /\ StoreEngine(branch, wake_word_system)
                      /\ pc' = "wake_menu"
                      /\ UNCHANGED <<arg, runVars>>
    /\ UNCHANGED <<msg, ret, capture_hw, playback_hw, venv, dirs, descriptor, probeVars>>

\* install_wake_word after its command sequence: the message
AfterEngine ==
    /\ pc = "rwg_return"
    /\ site \in Engines
    /\ IF result = "True"
       THEN Msgbox("installed successfully", "engine_store")
       ELSE Msgbox("An error occurred while installing", "engine_cleanup")
    /\ UNCHANGED <<settings, choice, last, arg, nsel, runVars, worldVars, probeVars>>
    /\ dialog' = NoDialog

\* the sequence succeeded: the end of the branch
EngineStore ==
    /\ pc = "engine_store"
    /\ StoreEngine(site, arg)
    /\ pc' = "wake_menu"
    /\ arg' = None
    /\ RunnerPop
    /\ UNCHANGED <<msg, ret, choice, last, nsel, capture_hw, playback_hw, venv, dirs,
                   descriptor, probeVars>>
    /\ dialog' = NoDialog

\* a failure path that leaves the engine directory in place
EngineCleanupKeepsDir ==
    /\ pc = "engine_cleanup"
    /\ pc' = "wake_menu"
    /\ arg' = None
    /\ RunnerPop
    /\ UNCHANGED <<settings, msg, ret, choice, last, nsel, worldVars, probeVars>>
    /\ dialog' = NoDialog

\* the sequence failed: shutil.rmtree of the engine directory, and return
EngineCleanup ==
    /\ pc = "engine_cleanup"
    /\ dirs' = dirs \ {site}
    /\ pc' = "wake_menu"
    /\ arg' = None
    /\ RunnerPop
    /\ UNCHANGED <<settings, msg, ret, choice, last, nsel, capture_hw, playback_hw,
                   file, venv, descriptor, probeVars>>
    /\ dialog' = NoDialog

OwwWords ==
    <<Pair("ok_nabu", "ok nabu"), Pair("hey_jarvis", "hey jarvis"),
      Pair("alexa", "alexa"), Pair("hey_mycroft", "hey mycroft"),
      Pair("community", "Community Wake Words")>>

SnowboyWords ==
    <<Pair("snowboy", "snowboy"), Pair("jarvis", "jarvis"), Pair("alexa", "alexa"),
      Pair("smart_mirror", "smart mirror"), Pair("view_glass", "view glass"),
      Pair("hey_extreme", "hey extreme"), Pair("neoya", "neoya"),
      Pair("subex", "subex")>>

\* select_wake_word: the list shown and the key written, by the selected
\* engine: the first branch for openWakeWord; the second, for porcupine1,
\* repeats the first with its list and its key; the third, porcupine1 again,
\* is never reached; the last for snowboy
WakeWordList(e) ==
    CASE e = "openWakeWord" -> [items |-> OwwWords, key |-> "openWakeWord"]
      [] e = "porcupine1"   -> [items |-> OwwWords, key |-> "openWakeWord"]
      [] e = "snowboy"      -> [items |-> SnowboyWords, key |-> "snowboy"]

\* choice == "wake_word": select_wake_word
SelectWakeWord ==
    /\ Select("wake_menu", "wake_word")
    /\ IF settings.wake_word_system \notin Engines
       THEN /\ last' = NoPrompt
            /\ dialog' = NoDialog
            /\ UNCHANGED <<settings, file>>
       ELSE LET list == WakeWordList(settings.wake_word_system)
            IN  \E a \in RadiolistAnswers(list.items,
                                          Get(settings.wake_word, list.key), MaxPick) :
                   LET wake_word == Radiolist(list.items, a)
                   IN  /\ last' = Prompted("radiolist", wake_word)
                       /\ dialog' = ListPrompt("radiolist", list.items, a, wake_word)
                       /\ IF wake_word # None
                          THEN /\ settings' = [settings EXCEPT !.wake_word =
                                                 Put(settings.wake_word, list.key, wake_word)]
                               /\ file' = Save(settings')
                          ELSE UNCHANGED <<settings, file>>
    /\ pc' = "wake_menu"
    /\ UNCHANGED <<msg, ret, arg, runVars, capture_hw, playback_hw, venv, dirs,
                   descriptor, probeVars>>

NextWizard ==
    \/ Start \/ AfterBase \/ OpenSubmenu \/ MainExit \/ Back
    \/ SetSatelliteName \/ SetSatelliteType \/ AfterVad
    \/ GenerateServices \/ InstallServices \/ AfterStop \/ AfterInstall
    \/ MicList \/ MicManual \/ MicRespeaker \/ AfterRespeaker \/ SysExit
    \/ SndDetect \/ SndList \/ SndManual \/ SndDisable \/ SndFeedback
    \/ WakeSystem \/ AfterEngine \/ EngineStore \/ EngineCleanup \/ SelectWakeWord

Next == NextWizard \/ NextProbe \/ NextRun


(* ----------------- run_with_gauge called on its own -------------------- *)

\* argument vectors: the empty one, an elevated one, a plain one
Argvs == {<<>>, <<SUDO, "-S", "systemctl">>, <<"script/setup">>}

RECURSIVE SeqsUpTo(_, _)
SeqsUpTo(S, n) ==
    IF n = 0 THEN {<<>>}
    ELSE LET shorter == SeqsUpTo(S, n - 1)
         IN  shorter \cup {Append(s, x) : s \in {t \in shorter : Len(t) = n - 1}, x \in S}

Secrets == {None, "", "hunter2"}

\* plughw: device names
Plughw(n) == [k \in 1..n |-> <<"plughw:0", "plughw:1", "plughw:2", "plughw:3",
                               "plughw:4">>[k]]

RunnerIdle ==
    /\ site = "none"
    /\ commands = <<>>
    /\ sudo_password = None
    /\ cmd_i = 0
    /\ futures = <<>>
    /\ percent = 0
    /\ gauge = "none"
    /\ result = "none"
    /\ budget = 0
    /\ started = <<>>
    /\ fed = <<>>
    /\ pushed = <<>>

ProbeIdleInit ==
    /\ devices = <<>>
    /\ tasks = NoTasks
    /\ gauge_out = <<>>
    /\ next_i = 0
    /\ best_device = None
    /\ best_rms = NoRms

WizardIdle ==
    /\ msg = ""
    /\ ret = ""
    /\ choice = None
    /\ last = NoPrompt
    /\ arg = None
    /\ nsel = 0
    /\ dialog = NoDialog

WorldIdle ==
    /\ capture_hw = <<>>
    /\ playback_hw = <<>>
    /\ file = NoFile
    /\ settings = Load(file)
    /\ venv = TRUE
    /\ dirs = {}
    /\ descriptor = FALSE

InitRun ==
    /\ WizardIdle
    /\ WorldIdle
    /\ ProbeIdleInit
    /\ pc = "caller"
    /\ site = "caller"
    /\ commands = <<>>
    /\ sudo_password = None
    /\ cmd_i = 0
    /\ futures = <<>>
    /\ percent = 0
    /\ gauge = "none"
    /\ result = "none"
    /\ budget = 0
    /\ started = <<>>
    /\ fed = <<>>
    /\ pushed = <<>>

CallerCall ==
    /\ pc = "caller"
    /\ \E cmds \in SeqsUpTo(Argvs, MaxCmds), pw \in Secrets :
          RunWithGauge("caller", cmds, pw, MaxTicks)
    /\ UNCHANGED <<worldVars, wizVars, probeVars>>
    /\ dialog' = NoDialog

SpecRun == InitRun /\ [][CallerCall \/ NextRun]_vars

(* ------------------- autodetect called on its own ---------------------- *)

InitProbe ==
    /\ RunnerIdle
    /\ ProbeIdleInit
    /\ pc = "mic_menu"
    /\ WizardIdle
    /\ capture_hw \in {Plughw(n) : n \in 0..MaxDevices}
    /\ playback_hw = <<>>
    /\ file \in {NoFile, Save([DefaultSettings EXCEPT !.microphone_device = "plughw:1"])}
    /\ settings = Load(file)
    /\ venv = TRUE
    /\ dirs = {}
    /\ descriptor = FALSE

SpecProbe == InitProbe /\ [][NextProbe]_vars

(* ------------- menu, radiolist and checklist called on their own ------- *)

\* option-list entries with repeated labels and repeated values
ItemChoices == {Bare("a"), Bare("b"), Pair("a", "b"), Pair("b", "b")}

\* the non-empty option lists
OptionLists == SeqsUpTo(ItemChoices, MaxItems) \ {<<>>}

\* the position a tag stands for
Position(t) == CHOOSE i \in 0..9 : Str(i) = t

\* what whiptail --checklist may answer: cancel, or the tags of the checked
\* entries in list order
CheckedAnswers(items) ==
    {[returncode |-> 1, stderr |-> <<>>]}
      \cup {[returncode |-> 0, stderr |-> t] :
               t \in {u \in SeqsUpTo({Str(i - 1) : i \in DOMAIN items}, Len(items)) :
                        \A j \in DOMAIN u, k \in DOMAIN u :
                           j < k => Position(u[j]) < Position(u[k])}}

InitCodec ==
    /\ pc = "codec"
    /\ RunnerIdle
    /\ ProbeIdleInit
    /\ WizardIdle
    /\ WorldIdle

MenuCall ==
    /\ pc = "codec"
    /\ \E items \in OptionLists :
          \E a \in MenuAnswers(items) :
             dialog' = ListPrompt("menu", items, a, Menu(items, a))
    /\ pc' = "returned"
    /\ UNCHANGED <<runVars, worldVars, wizVars, probeVars>>

RadiolistCall ==
    /\ pc = "codec"
    /\ \E items \in OptionLists :
          \E selected_item \in {None} \cup {ItemValue(items[i]) : i \in DOMAIN items} :
             \E a \in RadiolistAnswers(items, selected_item, Len(items)) :
                dialog' = ListPrompt("radiolist", items, a, Radiolist(items, a))
    /\ pc' = "returned"
    /\ UNCHANGED <<runVars, worldVars, wizVars, probeVars>>

ChecklistCall ==
    /\ pc = "codec"
    /\ \E items \in OptionLists :
          \E a \in CheckedAnswers(items) :
             dialog' = ListPrompt("checklist", items, a, Checklist(items, a))
    /\ pc' = "returned"
    /\ UNCHANGED <<runVars, worldVars, wizVars, probeVars>>

NextCodec == MenuCall \/ RadiolistCall \/ ChecklistCall

SpecCodec == InitCodec /\ [][NextCodec]_vars

(* --------------------------- the whole wizard -------------------------- *)

\* the settings files a session may start from: none; one of a satellite in
\* wake mode with the snowboy engine and a feedback sound enabled; one with
\* porcupine1 selected and a wake word kept for another engine
InitFiles ==
    {NoFile,
     Save([DefaultSettings EXCEPT
             !.microphone_device = "plughw:0",
             !.feedback_sounds = <<"awake">>,
             !.satellite_type = "wake",
             !.wake_word_system = "snowboy",
             !.wake_word = Put(DefaultSettings.wake_word, "snowboy", "jarvis")]),
     Save([DefaultSettings EXCEPT
             !.satellite_type = "wake",
             !.wake_word_system = "porcupine1",
             !.wake_word = Put(Put(DefaultSettings.wake_word, "porcupine1", "porcupine"),
                               "openWakeWord", "hey_jarvis")])}

Init ==
    /\ pc = "start"
    /\ RunnerIdle
    /\ ProbeIdleInit
    /\ WizardIdle
    /\ capture_hw \in {Plughw(n) : n \in 0..WizardDevices}
    /\ playback_hw = capture_hw
    /\ file \in InitFiles
    /\ settings = Load(file)
    /\ \/ venv = FALSE /\ dirs = {} /\ descriptor = FALSE
       \/ venv = TRUE /\ dirs = Engines /\ descriptor = TRUE

Spec == Init /\ [][Next]_vars

\* The threads of the process keep being scheduled and every external command
\* and capture terminates: a command sequence that can take a step takes one,
\* and so does a probe batch. The operator is under no obligation.
ProbeStep == ProbeFinish \/ DetectGauge \/ Consult \/ DetectReport

FairSpec == Spec /\ WF_vars(NextRun) /\ WF_vars(ProbeStep)

(* ======================= the claims ==================================== *)

Failed == {k \in DOMAIN futures : futures[k] = "fail"}

\* C1: the commands started by a run_with_gauge call are a prefix of its list
\* that ends with the first failing command (the whole list when none fails);
\* it returns True exactly when no command failed, and what the successful
\* commands did stays in place.
C1_AbortOnFirstFailure ==
    /\ started = SubSeq(commands, 1, Len(started))
    /\ \A k \in Failed : k = Len(started)
    /\ pc = "rwg_return" =>
          /\ result = "True" <=> Failed = {}
          /\ result = "False" <=> Failed # {}
          /\ Failed = {} => started = commands
          /\ \A k \in DOMAIN futures :
                futures[k] = "ok" => k \in DOMAIN fed /\ fed[k].command = commands[k]

\* a three-command call whose second command failed has returned
C1_Witness ==
    /\ pc = "rwg_return"
    /\ result = "False"
    /\ Len(commands) = 3
    /\ Len(started) = 2
    /\ futures = <<"ok", "fail">>

\* C2: at most one command worker is in flight, the commands are started in
\* list order, and a command is started only after every earlier one was
\* seen to succeed.
C2_OneWorkerInOrder ==
    /\ Cardinality({k \in DOMAIN futures : futures[k] = "running"}) <= 1
    /\ Len(futures) = cmd_i
    /\ \A k \in DOMAIN started : started[k] = commands[k]
    /\ \A k \in DOMAIN futures : k < Len(futures) => futures[k] = "ok"
    /\ pc = "rwg_for" => \A k \in DOMAIN futures : futures[k] = "ok"

\* the third command of a list is running
C2_Witness ==
    /\ Len(futures) = 3
    /\ futures[3] = "running"
    /\ pc = "rwg_sleep"

\* the device the selection rule names among the candidates S: the greatest
\* score that reaches the threshold, the earliest candidate on a tie
WinnerAmong(S) ==
    LET E == {k \in S : tasks[k].rms >= RECORD_RMS_MIN}
    IN  IF E = {} THEN None
        ELSE devices[CHOOSE k \in E : \A j \in E :
                        \/ tasks[j].rms < tasks[k].rms
                        \/ tasks[j].rms = tasks[k].rms /\ k <= j]

Reported == pc = "msgbox" /\ ret \in {"detect_found", "detect_none"}

\* C3: autodetect selects the candidate with the greatest score among those
\* at or above the threshold, the earliest one on a tie; it reports "not
\* found" exactly when no score reaches the threshold, and then leaves the
\* microphone setting as it was; a detected device is stored.
C3_BestDeviceSelected ==
    /\ [](Reported =>
            /\ best_device = WinnerAmong(DOMAIN tasks)
            /\ ret = "detect_none" <=> WinnerAmong(DOMAIN tasks) = None
            /\ ret = "detect_none" <=> msg = "Audio was not detected from any microphone")
    /\ [][pc = "detect_none" => settings' = settings /\ file' = file]_vars
    /\ [][pc = "detect_found" =>
             /\ settings'.microphone_device = WinnerAmong(DOMAIN tasks)
             /\ settings'.microphone_device # None]_vars

\* three candidates, the last two tied for the greatest score: the second wins
C3_Witness ==
    /\ Reported
    /\ Len(devices) = 3
    /\ tasks[1].rms = 30 /\ tasks[2].rms = 31 /\ tasks[3].rms = 31
    /\ best_device = devices[2]
    /\ ret = "detect_found"

C5_FailedProbeScoresZero ==
    /\ \A k \in DOMAIN tasks :
          tasks[k].done => /\ ~tasks[k].raised
                           /\ tasks[k].failed => tasks[k].rms = 0
    /\ pc = "crashed" => tasks = NoTasks
    /\ Reported =>
          best_device = WinnerAmong({k \in DOMAIN tasks : ~tasks[k].failed})

\* the first and the last probe failed and the middle one was selected
C5_Witness ==
    /\ Reported
    /\ Len(devices) = 3
    /\ tasks[1].failed /\ tasks[3].failed
    /\ ~tasks[2].failed
    /\ best_device = devices[2]

\* the positions at which a dialog is on screen or a command sequence runs
Showing == Menus \cup {"msgbox", "rwg_for", "rwg_poll", "rwg_sleep", "rwg_return",
                       "detect_gauge"}

\* C6: whenever a menu or another dialog is on screen, or a command sequence
\* is running, the settings file holds the in-memory Settings in every field.
C6_WriteThrough ==
    pc \in Showing => \A f \in Fields : Load(file)[f] = settings[f]

\* back at a menu after two handlers changed two fields
C6_Witness ==
    /\ pc \in Menus
    /\ settings.satellite_name = "Kitchen"
    /\ settings.sound_device = "plughw:9"
    /\ file = Save(settings)

\* C7: the first menu is the root menu; an absent selection in a submenu
\* leads to the root menu, and one at the root menu ends the wizard for good;
\* neither changes the Settings, the settings file or starts a command.
C7_CancelPops ==
    /\ []((pc \in Menus /\ nsel = 0) => pc = "main_menu")
    /\ [][(pc \in SubMenus /\ choice' = None) =>
             /\ pc' = "main_menu"
             /\ UNCHANGED <<settings, file, runVars>>]_vars
    /\ [][(pc = "main_menu" /\ choice' = None) =>
             /\ pc' = "exited"
             /\ UNCHANGED <<settings, file, runVars>>]_vars
    /\ [][pc = "exited" => pc' = "exited"]_vars

\* a submenu was left by cancel and the root menu is on screen again
C7_Witness ==
    /\ pc = "main_menu"
    /\ choice = None
    /\ nsel >= 2

\* C8: "Generate Services" without a microphone and "Install Services"
\* without a descriptor put their message on screen and go back to the root
\* menu: no prompt, no change of the Settings, the file or the descriptor,
\* and no command.
C8_FailFast ==
    /\ [][(pc = "main_menu" /\ choice' = "generate"
              /\ settings.microphone_device = None) =>
             /\ pc' = "msgbox"
             /\ msg' = "Please configure microphone"
             /\ ret' = "main_menu"
             /\ last' = NoPrompt
             /\ UNCHANGED <<settings, file, descriptor, runVars>>]_vars
    /\ [][(pc = "main_menu" /\ choice' = "install" /\ ~descriptor) =>
             /\ pc' = "msgbox"
             /\ msg' = "Please generate services"
             /\ ret' = "main_menu"
             /\ last' = NoPrompt
             /\ UNCHANGED <<settings, file, descriptor, runVars>>]_vars
    /\ [][(pc = "msgbox"
              /\ msg \in {"Please configure microphone", "Please generate services"}) =>
             /\ pc' = "main_menu"
             /\ UNCHANGED <<settings, file, descriptor, runVars>>]_vars

\* "Generate Services" was chosen with no microphone set
C8_Witness ==
    /\ pc = "msgbox"
    /\ msg = "Please configure microphone"
    /\ choice = "generate"
    /\ settings.microphone_device = None
    /\ ~descriptor

\* C9 as stated: once a prompt shown by a handler has returned an absent
\* result, that handler starts no command and changes neither the Settings
\* nor the settings file.
C9_CancelGoesBack ==
    /\ []((last.prompt # "none" /\ last.absent) => started = <<>>)
    /\ [][(pc \in Menus /\ last'.prompt # "none" /\ last'.absent) =>
             UNCHANGED <<settings, file>>]_vars

\* C10, its particular case, as stated: "Select From List" on a machine whose
\* listing yields no device leads back to the microphone menu.
C10_EmptyListBackToMenu ==
    [][(pc = "mic_menu" /\ choice' = "list" /\ capture_hw = <<>>) =>
          pc' = "mic_menu"]_vars

\* C11 as stated: the process ends from the driver-installation handler only
\* after the driver installation sequence has succeeded; after a failed
\* sequence the wizard is back at the microphone menu.
C11_ExitOnlyAfterSuccess ==
    /\ [](pc \in {"sys_exit", "exit0"} => result = "True")
    /\ [][(pc = "rwg_return" /\ site = "respeaker" /\ result = "False") =>
             ~(pc' = "msgbox" /\ ret' = "sys_exit")]_vars

\* the texts of the message boxes that report a failed command sequence
ErrorMessages ==
    {"An error occurred while installed vad",
     "An error occurred while installing services",
     "An error occurred while installing"}

\* C12 as stated: when a command sequence has returned failure, the next
\* thing on screen is a message box reporting the error, at every call site.
C12_FailureSurfaced ==
    [][(pc = "rwg_return" /\ result = "False") =>
          /\ pc' = "msgbox"
          /\ msg' \in ErrorMessages]_vars

\* C13: a spawned command is written the secret, once, exactly when its first
\* argument is the elevation token and a secret was supplied; every other
\* command has its input closed with nothing written; no command is spawned
\* twice.
C13_SecretOnlyToElevated ==
    /\ Len(fed) <= Len(started)
    /\ \A k \in DOMAIN fed :
          /\ fed[k].command = started[k]
          /\ fed[k].input # None <=>
                (fed[k].command[1] = SUDO /\ sudo_password # None)
          /\ fed[k].input # None => fed[k].input = sudo_password
          /\ fed[k].command[1] # SUDO => fed[k].input = None

\* with a secret supplied, an elevated command received it and a plain
\* command after it received nothing
C13_Witness ==
    /\ sudo_password = "hunter2"
    /\ Len(fed) = 2
    /\ fed[1].command[1] = SUDO /\ fed[1].input = "hunter2"
    /\ fed[2].command[1] # SUDO /\ fed[2].input = None

\* C14: for every non-empty option list the tags are the distinct stringified
\* zero-based positions, the tag of position i decodes to the domain value of
\* position i, and a prompt answered with tags returns the values of their
\* positions.
C14_PositionalTags ==
    dialog.kind # "none" =>
       LET its == dialog.items
           a == dialog.answer
       IN  /\ DOMAIN ItemMap(its) = {Str(i - 1) : i \in DOMAIN its}
           /\ Cardinality(DOMAIN ItemMap(its)) = Len(its)
           /\ \A i \in DOMAIN its : ItemMap(its)[Str(i - 1)] = ItemValue(its[i])
           /\ IF a.returncode # 0 THEN TRUE
              ELSE IF dialog.kind = "checklist"
              THEN /\ Len(dialog.returned.values) = Len(a.stderr)
                   /\ \A k \in DOMAIN a.stderr :
                         dialog.returned.values[k] =
                            ItemValue(its[Position(a.stderr[k]) + 1])
              ELSE \A i \in DOMAIN its :
                      a.stderr = Str(i - 1) => dialog.returned = ItemValue(its[i])

\* three entries with the same label, the first and the last with the same
\* value: the tag of the second entry decodes to the second value
C14_Witness ==
    /\ dialog.kind = "radiolist"
    /\ dialog.items = <<Bare("b"), Pair("a", "b"), Pair("b", "b")>>
    /\ dialog.answer = Ok("1")
    /\ dialog.returned = "a"

\* C15: a checklist answered with exit code zero and no tag returns a present,
\* empty selection, which the feedback-sounds handler stores and saves; a
\* cancelled checklist returns an absent result, and the handler then leaves
\* the Settings and the settings file as they were.
C15_EmptySelectionIsPresent ==
    /\ [](dialog.kind = "checklist" =>
            IF dialog.answer.returncode # 0
            THEN dialog.returned.absent
            ELSE /\ ~dialog.returned.absent
                 /\ dialog.answer.stderr = <<>> => dialog.returned.values = <<>>
                 /\ settings.feedback_sounds = dialog.returned.values
                 /\ file = Save(settings))
    /\ [][(dialog'.kind = "checklist" /\ dialog'.answer.returncode # 0) =>
             UNCHANGED <<settings, file>>]_vars

\* a satellite that had a feedback sound enabled has none after the operator
\* confirmed the checklist with nothing checked
C15_Witness ==
    /\ dialog.kind = "checklist"
    /\ dialog.answer = [returncode |-> 0, stderr |-> <<>>]
    /\ settings.feedback_sounds = <<>>
    /\ Load(file).feedback_sounds = <<>>
    /\ settings.microphone_device = "plughw:0"
    /\ nsel = 2

\* the domain values of an option list
ValuesOf(its) == {ItemValue(its[i]) : i \in DOMAIN its}

\* C16 as stated: what a single-select list prompt returns is absent or a
\* domain value of its option list, and a handler stores in the Settings
\* nothing but a domain value of the list it showed.
C16_UnknownTagIsNoSelection ==
    /\ [](dialog.kind = "radiolist" =>
            dialog.returned \in {None} \cup ValuesOf(dialog.items))
    /\ [][(dialog'.kind = "radiolist" /\ settings' # settings) =>
             dialog'.returned \in ValuesOf(dialog'.items)]_vars

\* C17 as stated: a run_with_gauge call on a non-empty list whose commands all
\* succeed returns True having written at least one percentage to the gauge.
C17_ProgressBeforeSuccess ==
    (pc = "rwg_return" /\ commands # <<>> /\ result = "True") =>
       /\ \A k \in DOMAIN futures : futures[k] = "ok"
       /\ Len(pushed) >= 1

\* C18: the k-th percentage a run_with_gauge call writes to the gauge is k
\* steps counted from 0 with the value after 100 being 0, whichever command of
\* the list is running; so every value is a multiple of the step in 0..100,
\* and the counter is the value written last.
C18_SteppedPercentages ==
    /\ \A k \in DOMAIN pushed :
          /\ pushed[k] = (Step * k) % (100 + Step)
          /\ pushed[k] \in {Step * j : j \in 0..parts}
    /\ percent = IF pushed = <<>> THEN 0 ELSE pushed[Len(pushed)]

\* the third command of a list is running and the counter has passed 100,
\* gone back to 0 and stepped on
C18_Witness ==
    /\ cmd_i = 3
    /\ futures[3] = "running"
    /\ Len(pushed) = 22
    /\ pushed[20] = 100 /\ pushed[21] = 0 /\ pushed[22] = Step

\* C19 as stated: the gauge a run_with_gauge call opened is closed when the
\* call returns, whatever it returns, so no menu and no message box is on
\* screen while a gauge is open.
C19_GaugeClosedOnReturn ==
    /\ pc = "rwg_return" => gauge = "closed"
    /\ pc \in Menus \cup {"msgbox"} => gauge # "open"

PorcupineWords == <<Pair("porcupine", "porcupine")>>

\* the wake words select_wake_word holds for each engine
EngineWords(e) ==
    CASE e = "openWakeWord" -> OwwWords
      [] e = "porcupine1"   -> PorcupineWords
      [] e = "snowboy"      -> SnowboyWords

\* C21 as stated: "Select Wake Word" with engine E selected shows the wake
\* words of E and changes at most the entry of E in the wake-word mapping;
\* the entries of the other engines and the other fields stay as they were.
C21_OwnEntryOnly ==
    [][(pc = "wake_menu" /\ choice' = "wake_word"
          /\ settings.wake_word_system \in Engines) =>
          LET E == settings.wake_word_system
          IN  /\ dialog'.kind = "radiolist"
              /\ dialog'.items = EngineWords(E)
              /\ DOMAIN settings'.wake_word \subseteq DOMAIN settings.wake_word \cup {E}
              /\ \A e \in DOMAIN settings.wake_word \ {E} :
                    /\ e \in DOMAIN settings'.wake_word
                    /\ settings'.wake_word[e] = settings.wake_word[e]
              /\ \A f \in Fields \ {"wake_word"} : settings'[f] = settings[f]]_vars

\* C22 as stated: choosing engine E at "Select System" when the directory of
\* E exists stores E as the selected engine, saves the Settings and leaves an
\* entry for E in the wake-word mapping; when the directory is missing the
\* installation of E is run, and its success ends the same way.
C22_ChosenEngineSelected ==
    /\ [][(pc = "wake_menu" /\ choice' = "system" /\ dialog'.returned \in Engines
              /\ dialog'.returned \in dirs) =>
             /\ settings'.wake_word_system = dialog'.returned
             /\ dialog'.returned \in DOMAIN settings'.wake_word
             /\ file' = Save(settings')]_vars
    /\ [][(pc = "wake_menu" /\ choice' = "system" /\ dialog'.returned \in Engines
              /\ dialog'.returned \notin dirs) =>
             /\ pc' = "rwg_for"
             /\ arg' = dialog'.returned]_vars
    /\ [][pc = "engine_store" =>
             /\ settings'.wake_word_system = arg
             /\ arg \in DOMAIN settings'.wake_word
             /\ file' = Save(settings')]_vars

\* C23: no step removes a key from the wake-word mapping; a step that selects
\* an engine leaves the value of every entry the mapping had, and an entry it
\* adds holds the default wake word of its engine.
C23_EntriesRetained ==
    /\ [][DOMAIN settings.wake_word \subseteq DOMAIN settings'.wake_word]_vars
    /\ [][((pc = "wake_menu" /\ choice' = "system") \/ pc = "engine_store") =>
             /\ \A e \in DOMAIN settings.wake_word :
                   settings'.wake_word[e] = settings.wake_word[e]
             /\ \A e \in DOMAIN settings'.wake_word \ DOMAIN settings.wake_word :
                   settings'.wake_word[e] = DefaultWakeWord(e)]_vars

\* openWakeWord was selected again after porcupine1 and still has the wake
\* word chosen for it earlier, which is not its default
C23_Witness ==
    /\ dialog.kind = "radiolist"
    /\ dialog.items = EngineItems
    /\ dialog.returned = "openWakeWord"
    /\ settings.wake_word_system = "openWakeWord"
    /\ "porcupine1" \in DOMAIN settings.wake_word
    /\ settings.wake_word["openWakeWord"] = "hey_jarvis"
    /\ file = Save(settings)

\* the positions inside a run_with_gauge call and inside a probe batch
RunPcs == {"rwg_for", "rwg_poll", "rwg_sleep"}
ProbePcs == {"detect_gauge", "detect_results"}

\* C24: every run_with_gauge call that was started returns, and every
\* autodetect that was started reports a device or "not found"; until then
\* no menu is shown, no selection is made and neither the Settings nor the
\* settings file changes.
C24_RunsToCompletion ==
    /\ (pc \in RunPcs) ~> (pc = "rwg_return" /\ result \in {"True", "False"})
    /\ (pc \in ProbePcs) ~> Reported
    /\ [][(pc \in RunPcs) =>
             /\ pc' \in RunPcs \cup {"rwg_return"}
             /\ UNCHANGED <<settings, file, choice, nsel>>]_vars
    /\ [][(pc \in ProbePcs) =>
             /\ (pc' \in ProbePcs) \/ (pc' = "msgbox" /\ ret' \in {"detect_found", "detect_none"})
             /\ UNCHANGED <<settings, file, choice, nsel>>]_vars

\* "Installing Services..." has returned after at least one tick
C24_Witness ==
    /\ pc = "rwg_return"
    /\ site = "install"
    /\ result = "True"
    /\ Len(pushed) >= 1
    /\ Len(started) = Len(InstallCommands)

\* C25 as stated: every percentage written to the gauge shown during
\* autodetect lies in 0..100, and the last one written is 100.
C25_GaugeEndsAt100 ==
    gauge_out # <<>> =>
       /\ \A k \in DOMAIN gauge_out : gauge_out[k] \in 0..100
       /\ gauge_out[Len(gauge_out)] = 100

====
